---- MODULE Spec2Model ----
(***************************************************************************)
(* Model of stem_http.tor.ProxyMgr: the lifecycle controller of a Tor      *)
(* proxy daemon (reuse or spawn, port-bump retry, control-port             *)
(* authentication, stop, context-manager use).                             *)
(*                                                                         *)
(* The external primitives (stem.process.launch_tor_with_config,           *)
(* stem.control.Controller.from_port/authenticate, subprocess.Popen.kill)  *)
(* are the environment: each call is one step whose outcome is chosen      *)
(* nondeterministically.                                                   *)
(***************************************************************************)
EXTENDS Integers, Sequences, FiniteSets, TLC

\* ---------------------------------------------------------------- bounds
\* Number of public start() calls made on a constructed controller.
MaxPublicStarts == 1
\* Number of stop() calls (explicit or through __exit__) on one controller.
MaxStops == 2
\* Number of controllers constructed side by side on one host (HostSpec).
NumCtrls == 2

\* ------------------------------------------------------ program constants
DefaultRetries == 10
PortStep == 2
DefaultSocksPort == 9050
DefaultCntrlPort == 9051

\* Caller-supplied <<socks_port, cntrl_port>> pairs.
InitPorts == {<<DefaultSocksPort, DefaultCntrlPort>>, <<9150, 9053>>}
\* Values of the `retries` argument of a public start() call; the default
\* budget is the one the constructor's call runs with.
PublicRetries == {0, 2}

\* Signatures looked for in the text of a launch error.
BIND_FAIL_MSG == "bind_fail"
BROKEN_CONF_MSG == "broken_conf"

\* Outcomes of one stem.process.launch_tor_with_config call.
LaunchOutcomes == {"ok", "bind", "broken", "other"}
\* Outcomes of Controller.from_port followed by authenticate.
ConnectOutcomes == {"ok", "refused", "auth_rejected"}

\* str(err) of the OSError of a failed launch, as the set of the signatures
\* it contains.  stem reports the daemon's last problem line, which is one
\* sentence: it carries the bind signature, the broken-configuration
\* signature, or neither.
ErrText(o) ==
    CASE o = "bind" -> {BIND_FAIL_MSG}
      [] o = "broken" -> {BROKEN_CONF_MSG}
      [] OTHER -> {}

VARIABLES
    pc,          \* position of the caller: reuse_connect, start, connect, ready, failed, exited
    ctx,         \* who called start(): "init" (the constructor) or "public"
    scoped,      \* the controller is used in a with statement
    entered,     \* __enter__ has returned
    reuseReq,    \* the reuse argument
    exitOnReuseFail,
    initSocks, initCntrl,  \* the socks_port / cntrl_port arguments
    reuse, retry, socks_port, cntrl_port,   \* self.reuse, self.retry, self.socks_port, self.cntrl_port
    process,     \* self.process: 0 is None, else an index into procs
    procs,       \* every daemon spawned by this controller: "live" or "dead"
    cntrlr,      \* self.cntrlr: "none", "unauth" (connected only) or "auth"
    retries,     \* the retries argument of the running start() frame
    error,       \* what the last operation raised, "none" if nothing: the
                 \* RuntimeErrors are named ReuseUnavailable, FatalConfiguration
                 \* and RetriesExhausted, the re-raised OSError is LaunchError
    conflicts,   \* bind conflicts met by the running start() call chain
    attempts,    \* launch attempts of the running start() call chain
    budget,      \* the retries argument the chain was entered with
    launches,    \* launch attempts since the controller was created
    lastOutcome, \* outcome of the latest launch attempt
    cfg,         \* <<SocksPort, ControlPort>> of the latest tor_conf
    reuseConn,   \* outcome of the constructor's reuse connect, "none" if not made
    connOutcome, \* outcome of the constructor's connect after start()
    connPort,    \* port the latest connect_cntrlr targeted, 0 if none
    nPublic,     \* public start() calls so far
    stopCalls,   \* stop() calls so far
    exitStops,   \* stop() calls made by __exit__
    kills,       \* live processes terminated by stop()
    prevStop,    \* the latest completed operation on the controller was stop()
    clientPort,  \* port of the connector of the TorHttpClient built on the
                 \* controller, 0 while no client was built
    ctl          \* the controllers of one host, when several are constructed
                 \* side by side (HostSpec); empty otherwise

vars == <<pc, ctx, scoped, entered, reuseReq, exitOnReuseFail, initSocks,
          initCntrl, reuse, retry, socks_port, cntrl_port, process, procs,
          cntrlr, retries, error, conflicts, attempts, budget, launches,
          lastOutcome, cfg, reuseConn, connOutcome, connPort, nPublic,
          stopCalls, exitStops, kills, prevStop, clientPort, ctl>>

params == <<scoped, reuseReq, exitOnReuseFail, initSocks, initCntrl, retry>>
ports == <<socks_port, cntrl_port>>

\* ProxyMgr.__init__, the field assignments before the first external call.
Init ==
    /\ scoped \in BOOLEAN
    /\ entered = FALSE
    /\ reuseReq \in BOOLEAN
    /\ exitOnReuseFail \in BOOLEAN
    /\ retry \in BOOLEAN
    /\ \E p \in InitPorts : initSocks = p[1] /\ initCntrl = p[2]
    /\ reuse = reuseReq
    /\ socks_port = initSocks
    /\ cntrl_port = initCntrl
    /\ process = 0
    /\ procs = <<>>
    /\ cntrlr = "none"
    /\ pc = IF reuseReq THEN "reuse_connect" ELSE "start"
    /\ ctx = "init"
    /\ retries = DefaultRetries
    /\ budget = DefaultRetries
    /\ error = "none"
    /\ conflicts = 0
    /\ attempts = 0
    /\ launches = 0
    /\ lastOutcome = "none"
    /\ cfg = <<0, 0>>
    /\ reuseConn = "none"
    /\ connOutcome = "none"
    /\ connPort = 0
    /\ nPublic = 0
    /\ stopCalls = 0
    /\ exitStops = 0
    /\ kills = 0
    /\ prevStop = FALSE
    /\ clientPort = 0
    /\ ctl = <<>>

\* Variant of ConnectCntrlr in which a rejected authentication is swallowed.
ConnectCntrlrSwallowsAuthFailure(old, o) ==
    CASE o = "ok" -> [cntrlr |-> "auth", err |-> "none"]
      [] o = "refused" -> [cntrlr |-> old, err |-> "SocketError"]
      [] OTHER -> [cntrlr |-> "unauth", err |-> "none"]

\* Variant of ConnectCntrlr that drops the connection it could not
\* authenticate.
ConnectCntrlrDropsSession(old, o) ==
    CASE o = "ok" -> [cntrlr |-> "auth", err |-> "none"]
      [] o = "refused" -> [cntrlr |-> old, err |-> "SocketError"]
      [] OTHER -> [cntrlr |-> "none", err |-> "AuthenticationFailure"]

\* ProxyMgr.connect_cntrlr: the value of self.cntrlr and the exception, by
\* the outcome of from_port and authenticate.  from_port raises before the
\* assignment; authenticate raises after it.
ConnectCntrlr(old, o) ==
    CASE o = "ok" -> [cntrlr |-> "auth", err |-> "none"]
      [] o = "refused" -> [cntrlr |-> old, err |-> "SocketError"]
      [] OTHER -> [cntrlr |-> "unauth", err |-> "AuthenticationFailure"]

\* Variants of ReuseResult, each with one defect.
\* The spawn branch runs although the reuse connect succeeded.
ReuseResultSpawnsAnyway(err, eorf) ==
    CASE err = "none" -> [reuse |-> TRUE, pc |-> "start", error |-> "none"]
      [] err = "SocketError" /\ eorf ->
            [reuse |-> TRUE, pc |-> "failed", error |-> "ReuseUnavailable"]
      [] err = "SocketError" /\ ~eorf ->
            [reuse |-> FALSE, pc |-> "start", error |-> "none"]
      [] OTHER -> [reuse |-> TRUE, pc |-> "failed", error |-> err]

\* exit_on_reuse_fail is not consulted.
ReuseResultIgnoresExitFlag(err, eorf) ==
    CASE err = "none" -> [reuse |-> TRUE, pc |-> "ready", error |-> "none"]
      [] err = "SocketError" ->
            [reuse |-> FALSE, pc |-> "start", error |-> "none"]
      [] OTHER -> [reuse |-> TRUE, pc |-> "failed", error |-> err]

\* self.reuse is not cleared when falling back to spawning.
ReuseResultKeepsReuse(err, eorf) ==
    CASE err = "none" -> [reuse |-> TRUE, pc |-> "ready", error |-> "none"]
      [] err = "SocketError" /\ eorf ->
            [reuse |-> TRUE, pc |-> "failed", error |-> "ReuseUnavailable"]
      [] err = "SocketError" /\ ~eorf ->
            [reuse |-> TRUE, pc |-> "start", error |-> "none"]
      [] OTHER -> [reuse |-> TRUE, pc |-> "failed", error |-> err]

\* The except clause catches every exception, not only stem.SocketError.
ReuseResultCatchesAll(err, eorf) ==
    CASE err = "none" -> [reuse |-> TRUE, pc |-> "ready", error |-> "none"]
      [] err # "none" /\ eorf ->
            [reuse |-> TRUE, pc |-> "failed", error |-> "ReuseUnavailable"]
      [] OTHER -> [reuse |-> FALSE, pc |-> "start", error |-> "none"]

\* ProxyMgr.__init__, the reuse branch: what follows a connect_cntrlr that
\* raised err ("none": it returned).
ReuseResult(err, eorf) ==
    CASE err = "none" -> [reuse |-> TRUE, pc |-> "ready", error |-> "none"]
      [] err = "SocketError" /\ eorf ->
            [reuse |-> TRUE, pc |-> "failed", error |-> "ReuseUnavailable"]
      [] err = "SocketError" /\ ~eorf ->
            [reuse |-> FALSE, pc |-> "start", error |-> "none"]
      [] OTHER -> [reuse |-> TRUE, pc |-> "failed", error |-> err]

ReuseConnect(o) ==
    /\ pc = "reuse_connect"
    /\ LET c == ConnectCntrlr(cntrlr, o)
           r == ReuseResult(c.err, exitOnReuseFail)
       IN /\ cntrlr' = c.cntrlr
          /\ reuse' = r.reuse
          /\ pc' = r.pc
          /\ error' = r.error
    /\ reuseConn' = o
    /\ connPort' = cntrl_port
    /\ prevStop' = FALSE
    /\ UNCHANGED <<params, clientPort, ctl, ports, ctx, entered, process, procs, retries,
                   conflicts, attempts, budget, launches, lastOutcome, cfg,
                   connOutcome, nPublic, stopCalls, exitStops, kills>>

\* Variant of BumpPorts that steps to the next port number.
BumpPortsByOne(p) == <<p[1] + 1, p[2] + 1>>

\* Variant of BumpPorts that leaves the control port behind.
BumpPortsSocksOnly(p) == <<p[1] + PortStep, p[2]>>

\* ProxyMgr._bump_ports
BumpPorts(p) == <<p[1] + PortStep, p[2] + PortStep>>

\* Variants of Classify, each with one defect.
\* The budget test is off by one: a retry is still made with no budget left.
ClassifyOffByOne(txt, rt, n) ==
    IF BIND_FAIL_MSG \in txt /\ rt /\ n >= 0 THEN "retry"
    ELSE IF BROKEN_CONF_MSG \in txt THEN "FatalConfiguration"
    ELSE IF n = 0 THEN "RetriesExhausted"
    ELSE "LaunchError"

\* self.retry is not consulted.
ClassifyIgnoresRetryFlag(txt, rt, n) ==
    IF BIND_FAIL_MSG \in txt /\ n > 0 THEN "retry"
    ELSE IF BROKEN_CONF_MSG \in txt THEN "FatalConfiguration"
    ELSE IF n = 0 THEN "RetriesExhausted"
    ELSE "LaunchError"

\* The exhausted-budget test comes before the broken-configuration test.
ClassifyExhaustFirst(txt, rt, n) ==
    IF BIND_FAIL_MSG \in txt /\ rt /\ n > 0 THEN "retry"
    ELSE IF n = 0 THEN "RetriesExhausted"
    ELSE IF BROKEN_CONF_MSG \in txt THEN "FatalConfiguration"
    ELSE "LaunchError"

\* ProxyMgr.start, the except clause: the branch taken for an OSError whose
\* text is txt.
Classify(txt, rt, n) ==
    IF BIND_FAIL_MSG \in txt /\ rt /\ n > 0 THEN "retry"
    ELSE IF BROKEN_CONF_MSG \in txt THEN "FatalConfiguration"
    ELSE IF n = 0 THEN "RetriesExhausted"
    ELSE "LaunchError"

\* Variant of NextRetries in which the budget starts over on a retry.
NextRetriesResets(n) == DefaultRetries

\* ProxyMgr.start, the budget handed to the recursive call.
NextRetries(n) == n - 1

\* Variant of TorConf built from the default ports, not the current fields.
TorConfDefaults(sp, cp) == <<DefaultSocksPort, DefaultCntrlPort>>

\* Variant of TorConf with the two ports under each other's key.
TorConfSwapped(sp, cp) == <<cp, sp>>

\* ProxyMgr.start, tor_conf: <<SocksPort, ControlPort>>.  The Log and
\* ExitNodes entries do not depend on the ports and decide no branch.
TorConf(sp, cp) == <<sp, cp>>

\* Where control goes when start() returns or raises.
AfterStart(ok) ==
    IF ctx = "init" THEN (IF ok THEN "connect" ELSE "failed") ELSE "ready"

\* One frame of ProxyMgr.start: build tor_conf, launch, handle the failure.
\* The recursive call of the retry branch is the next Launch step.
Launch(o) ==
    /\ pc = "start"
    /\ cfg' = TorConf(socks_port, cntrl_port)
    /\ attempts' = attempts + 1
    /\ launches' = launches + 1
    /\ lastOutcome' = o
    /\ conflicts' = IF o = "bind" THEN conflicts + 1 ELSE conflicts
    /\ prevStop' = FALSE
    /\ IF o = "ok"
       THEN /\ procs' = Append(procs, "live")
            /\ process' = Len(procs) + 1
            /\ pc' = AfterStart(TRUE)
            /\ error' = "none"
            /\ UNCHANGED <<ports, retries>>
       ELSE LET b == Classify(ErrText(o), retry, retries)
            IN IF b = "retry"
               THEN /\ socks_port' = BumpPorts(ports)[1]
                    /\ cntrl_port' = BumpPorts(ports)[2]
                    /\ retries' = NextRetries(retries)
                    /\ UNCHANGED <<pc, error, process, procs>>
               ELSE /\ error' = b
                    /\ pc' = AfterStart(FALSE)
                    /\ UNCHANGED <<ports, retries, process, procs>>
    /\ UNCHANGED <<params, clientPort, ctl, ctx, entered, reuse, cntrlr, budget, reuseConn,
                   connOutcome, connPort, nPublic, stopCalls, exitStops, kills>>

\* ProxyMgr.__init__, the connect_cntrlr call that follows start().
Connect(o) ==
    /\ pc = "connect"
    /\ LET c == ConnectCntrlr(cntrlr, o)
       IN /\ cntrlr' = c.cntrlr
          /\ error' = c.err
          /\ pc' = IF c.err = "none" THEN "ready" ELSE "failed"
    /\ connOutcome' = o
    /\ connPort' = cntrl_port
    /\ prevStop' = FALSE
    /\ UNCHANGED <<params, clientPort, ctl, ports, ctx, entered, reuse, process, procs, retries,
                   conflicts, attempts, budget, launches, lastOutcome, cfg,
                   reuseConn, nPublic, stopCalls, exitStops, kills>>

\* The caller may use the controller: constructed, and, in a with statement,
\* bound by __enter__.
Usable == pc = "ready" /\ (scoped => entered)

\* A public call of ProxyMgr.start(retries=n) on a constructed controller.
PublicStart(n) ==
    /\ Usable
    /\ nPublic < MaxPublicStarts
    /\ nPublic' = nPublic + 1
    /\ ctx' = "public"
    /\ pc' = "start"
    /\ retries' = n
    /\ budget' = n
    /\ conflicts' = 0
    /\ attempts' = 0
    /\ prevStop' = FALSE
    /\ UNCHANGED <<params, clientPort, ctl, ports, entered, reuse, process, procs, cntrlr,
                   error, launches, lastOutcome, cfg, reuseConn, connOutcome,
                   connPort, stopCalls, exitStops, kills>>

\* Variant of StopFn that drops the handle after the kill.
StopFnClearsHandle(rs, p, ps) ==
    IF ~rs
    THEN IF p = 0
         THEN [process |-> p, procs |-> ps, err |-> "AttributeError", killed |-> 0]
         ELSE [process |-> 0,
               procs |-> [ps EXCEPT ![p] = "dead"],
               err |-> "none",
               killed |-> IF ps[p] = "live" THEN 1 ELSE 0]
    ELSE [process |-> p, procs |-> ps, err |-> "none", killed |-> 0]

\* ProxyMgr.stop on a controller with fields rs (reuse), p (process) and the
\* spawned processes ps.  Popen.kill polls first and signals only a process
\* that has not exited.
StopFn(rs, p, ps) ==
    IF ~rs
    THEN IF p = 0
         THEN [process |-> p, procs |-> ps, err |-> "AttributeError", killed |-> 0]
         ELSE [process |-> p,
               procs |-> [ps EXCEPT ![p] = "dead"],
               err |-> "none",
               killed |-> IF ps[p] = "live" THEN 1 ELSE 0]
    ELSE [process |-> p, procs |-> ps, err |-> "none", killed |-> 0]

StopBody ==
    LET s == StopFn(reuse, process, procs)
    IN /\ process' = s.process
       /\ procs' = s.procs
       /\ error' = s.err
       /\ kills' = kills + s.killed
       /\ stopCalls' = stopCalls + 1
       /\ prevStop' = TRUE

\* An explicit call of ProxyMgr.stop.
Stop ==
    /\ Usable
    /\ stopCalls < MaxStops
    /\ StopBody
    /\ UNCHANGED <<params, clientPort, ctl, ports, pc, ctx, entered, reuse, cntrlr, retries,
                   conflicts, attempts, budget, launches, lastOutcome, cfg,
                   reuseConn, connOutcome, connPort, nPublic, exitStops>>

\* ProxyMgr.__enter__: the with statement binds the constructed controller.
Enter ==
    /\ pc = "ready"
    /\ scoped
    /\ ~entered
    /\ entered' = TRUE
    /\ UNCHANGED <<params, clientPort, ctl, ports, pc, ctx, reuse, process, procs, cntrlr,
                   retries, error, conflicts, attempts, budget, launches,
                   lastOutcome, cfg, reuseConn, connOutcome, connPort, nPublic,
                   stopCalls, exitStops, kills, prevStop>>

\* ProxyMgr.__exit__: the with block ends, normally or by an exception.
Exit ==
    /\ pc = "ready"
    /\ scoped
    /\ entered
    /\ stopCalls < MaxStops
    /\ StopBody
    /\ exitStops' = exitStops + 1
    /\ pc' = "exited"
    /\ UNCHANGED <<params, clientPort, ctl, ports, ctx, entered, reuse, cntrlr, retries,
                   conflicts, attempts, budget, launches, lastOutcome, cfg,
                   reuseConn, connOutcome, connPort, nPublic>>

\* Variant of Connector that takes the default SOCKS port.
ConnectorDefaultPort(sp) == DefaultSocksPort

\* TorHttpClient.__init__: the port of the aiohttp_socks.ProxyConnector.
Connector(sp) == sp

\* TorHttpClient(tor_proxy): a client is built on the constructed controller.
NewClient ==
    /\ Usable
    /\ clientPort = 0
    /\ clientPort' = Connector(socks_port)
    /\ UNCHANGED <<params, ctl, ports, pc, ctx, entered, reuse, process, procs,
                   cntrlr, retries, error, conflicts, attempts, budget,
                   launches, lastOutcome, cfg, reuseConn, connOutcome,
                   connPort, nPublic, stopCalls, exitStops, kills, prevStop>>

Next ==
    \/ \E o \in ConnectOutcomes : ReuseConnect(o)
    \/ \E o \in LaunchOutcomes : Launch(o)
    \/ \E o \in ConnectOutcomes : Connect(o)
    \/ \E n \in PublicRetries : PublicStart(n)
    \/ Stop
    \/ Enter
    \/ Exit
    \/ NewClient

Spec == Init /\ [][Next]_vars

TypeOK ==
    /\ pc \in {"reuse_connect", "start", "connect", "ready", "failed", "exited"}
    /\ ctx \in {"init", "public"}
    /\ process \in 0..Len(procs)
    /\ cntrlr \in {"none", "unauth", "auth"}
    /\ retries \in 0..DefaultRetries
    /\ error \in {"none", "ReuseUnavailable", "SocketError", "AuthenticationFailure", "RetriesExhausted",
                  "FatalConfiguration", "LaunchError", "AttributeError"}

\* ---------------------------------------------- several controllers, one host
\* HostSpec: NumCtrls controllers are constructed without reuse on one host
\* with the same caller-supplied ports, their launch attempts interleaved in
\* any order.  A daemon binds the two ports of its configuration while it
\* lives; a launch whose configuration names a bound port reports a bind
\* conflict, a launch on two free ports succeeds or fails otherwise.

svars == <<pc, ctx, scoped, entered, reuseReq, exitOnReuseFail, initSocks,
           initCntrl, reuse, retry, socks_port, cntrl_port, process, procs,
           cntrlr, retries, error, conflicts, attempts, budget, launches,
           lastOutcome, cfg, reuseConn, connOutcome, connPort, nPublic,
           stopCalls, exitStops, kills, prevStop, clientPort>>

Ctrls == 1..NumCtrls

\* ProxyMgr.__init__ of one controller of the host, up to the start() call.
NewCtrl(rt, p) ==
    [pc |-> "start", retry |-> rt, socks_port |-> p[1], cntrl_port |-> p[2],
     retries |-> DefaultRetries, conflicts |-> 0, attempts |-> 0,
     lastOutcome |-> "none", daemon |-> <<>>, error |-> "none"]

HostInit ==
    /\ \E p \in InitPorts :
          /\ initSocks = p[1] /\ initCntrl = p[2]
          /\ socks_port = p[1] /\ cntrl_port = p[2]
          /\ \E rts \in [Ctrls -> BOOLEAN] :
                ctl = [c \in Ctrls |-> NewCtrl(rts[c], p)]
    /\ pc = "none" /\ ctx = "init"
    /\ scoped = FALSE /\ entered = FALSE
    /\ reuseReq = FALSE /\ exitOnReuseFail = FALSE
    /\ reuse = FALSE /\ retry = TRUE
    /\ process = 0 /\ procs = <<>> /\ cntrlr = "none"
    /\ retries = DefaultRetries /\ budget = DefaultRetries
    /\ error = "none" /\ conflicts = 0 /\ attempts = 0 /\ launches = 0
    /\ lastOutcome = "none" /\ cfg = <<0, 0>>
    /\ reuseConn = "none" /\ connOutcome = "none" /\ connPort = 0
    /\ nPublic = 0 /\ stopCalls = 0 /\ exitStops = 0 /\ kills = 0
    /\ prevStop = FALSE /\ clientPort = 0

\* The ports bound by the live daemons of the host.
Bound ==
    UNION {{ctl[c].daemon[1], ctl[c].daemon[2]} :
              c \in {d \in Ctrls : ctl[d].daemon # <<>>}}

\* One frame of ProxyMgr.start of controller c.
HostLaunch(c, o) ==
    LET k == ctl[c]
        conf == TorConf(k.socks_port, k.cntrl_port)
        busy == conf[1] \in Bound \/ conf[2] \in Bound
        seen == [k EXCEPT !.attempts = @ + 1, !.lastOutcome = o,
                          !.conflicts = IF o = "bind" THEN @ + 1 ELSE @]
    IN /\ k.pc = "start"
       /\ busy <=> o = "bind"
       /\ IF o = "ok"
          THEN ctl' = [ctl EXCEPT ![c] =
                          [seen EXCEPT !.daemon = conf, !.pc = "connect"]]
          ELSE LET b == Classify(ErrText(o), k.retry, k.retries)
               IN IF b = "retry"
                  THEN ctl' = [ctl EXCEPT ![c] =
                          [seen EXCEPT
                              !.socks_port = BumpPorts(<<k.socks_port, k.cntrl_port>>)[1],
                              !.cntrl_port = BumpPorts(<<k.socks_port, k.cntrl_port>>)[2],
                              !.retries = NextRetries(k.retries)]]
                  ELSE ctl' = [ctl EXCEPT ![c] =
                          [seen EXCEPT !.error = b, !.pc = "failed"]]
       /\ UNCHANGED svars

\* ProxyMgr.__init__ of controller c, the connect_cntrlr call after start().
HostConnect(c, o) ==
    LET k == ctl[c]
        r == ConnectCntrlr("none", o)
    IN /\ k.pc = "connect"
       /\ ctl' = [ctl EXCEPT ![c] =
                     [k EXCEPT !.error = r.err,
                               !.pc = IF r.err = "none" THEN "ready" ELSE "failed"]]
       /\ UNCHANGED svars

\* ProxyMgr.stop of the constructed controller c: its daemon is killed and
\* the ports it bound are free again.
HostStop(c) ==
    LET k == ctl[c]
    IN /\ k.pc = "ready"
       /\ ctl' = [ctl EXCEPT ![c] = [k EXCEPT !.daemon = <<>>, !.pc = "stopped"]]
       /\ UNCHANGED svars

HostNext ==
    \/ \E c \in Ctrls, o \in LaunchOutcomes : HostLaunch(c, o)
    \/ \E c \in Ctrls, o \in ConnectOutcomes : HostConnect(c, o)
    \/ \E c \in Ctrls : HostStop(c)

HostSpec == HostInit /\ [][HostNext]_vars

\* ------------------------------------------------------------ properties

\* The constructor is the only caller so far: no public start() was made.
InConstruction == nPublic = 0
\* The constructor returned without raising.
Constructed == pc \in {"ready", "exited"}
\* A launch step is being taken, with the given outcome.
LaunchStep(o) == pc = "start" /\ launches' = launches + 1 /\ lastOutcome' = o
AllDead == \A i \in 1..Len(procs) : procs[i] = "dead"

\* C1: with retry enabled and no reuse, when the first k <= DefaultRetries
\* launch attempts of a construction fail with a bind conflict (each of them
\* is retried) and the next launch and the authentication succeed, the
\* construction succeeds with socks_port = initial + 2k and
\* cntrl_port = initial + 2k.
C1_PortsAfterKConflicts ==
    (InConstruction /\ ~reuseReq /\ retry) =>
        /\ (lastOutcome = "bind" /\ conflicts <= DefaultRetries) =>
               (pc = "start" /\ error = "none")
        /\ (lastOutcome = "ok" /\ connOutcome = "ok") =>
               /\ Constructed
               /\ error = "none"
               /\ conflicts <= DefaultRetries
               /\ attempts = conflicts + 1
               /\ socks_port = initSocks + 2 * conflicts
               /\ cntrl_port = initCntrl + 2 * conflicts

C1_Witness ==
    /\ InConstruction /\ ~reuseReq /\ retry
    /\ pc = "ready"
    /\ conflicts = DefaultRetries
    /\ lastOutcome = "ok" /\ connOutcome = "ok"

\* C2: with retry enabled, DefaultRetries + 1 consecutive bind conflicts in
\* one construction make it fail with RetriesExhausted, and the controller
\* owns no process then.
C2_RetriesExhausted ==
    (InConstruction /\ retry /\ conflicts > DefaultRetries) =>
        /\ conflicts = DefaultRetries + 1
        /\ pc = "failed"
        /\ error = "RetriesExhausted"
        /\ process = 0
        /\ procs = <<>>

C2_Witness ==
    /\ InConstruction /\ retry
    /\ conflicts = DefaultRetries + 1
    /\ error = "RetriesExhausted"

\* C3: when the scope of a with statement has ended after the daemon was
\* spawned, __exit__ has called stop() exactly once and no spawned process
\* is left running; this includes the construction that fails after the
\* launch succeeded.
C3_ScopeEndStopsSpawned ==
    (scoped /\ InConstruction /\ pc \in {"failed", "exited"} /\ procs # <<>>) =>
        (exitStops = 1 /\ AllDead)

\* C4: a stop() that directly follows a stop() raises nothing, terminates
\* nothing and leaves the controller as the first stop() left it.
C4_StopIdempotent ==
    [][(prevStop /\ stopCalls' = stopCalls + 1) =>
           /\ error' = "none"
           /\ kills' = kills
           /\ procs' = procs
           /\ process' = process
           /\ reuse' = reuse
           /\ cntrlr' = cntrlr
           /\ ports' = ports]_vars

C4_Witness ==
    /\ InConstruction /\ ~reuse
    /\ prevStop
    /\ stopCalls = 2
    /\ kills = 1
    /\ process # 0 /\ procs[process] = "dead"

\* C5: when reuse is requested and the control port accepts the connection
\* and the credential, the construction succeeds without a launch attempt:
\* no process is owned, reuse stays true and both ports are the caller's.
C5_ReuseLiveNoSpawn ==
    (InConstruction /\ reuseReq /\ reuseConn = "ok") =>
        /\ Constructed
        /\ error = "none"
        /\ launches = 0
        /\ process = 0
        /\ procs = <<>>
        /\ reuse
        /\ cntrlr = "auth"
        /\ socks_port = initSocks
        /\ cntrl_port = initCntrl

C5_Witness ==
    /\ InConstruction /\ reuseReq /\ reuseConn = "ok"
    /\ pc = "ready" /\ reuse /\ process = 0

\* C6: when reuse is requested, nothing listens on the control port and
\* exit_on_reuse_fail is set, the construction fails with ReuseUnavailable
\* and no launch attempt is made.
C6_StrictReuseFails ==
    (reuseReq /\ reuseConn = "refused" /\ exitOnReuseFail) =>
        /\ pc = "failed"
        /\ error = "ReuseUnavailable"
        /\ launches = 0
        /\ procs = <<>>

C6_Witness ==
    /\ reuseReq /\ reuseConn = "refused" /\ exitOnReuseFail
    /\ pc = "failed" /\ error = "ReuseUnavailable"

\* The reuse connect was refused and the caller allowed the fallback.
FellBack == reuseReq /\ reuseConn = "refused" /\ ~exitOnReuseFail

\* C7 as stated: after the fallback, reuse is cleared and the construction
\* succeeds whenever a launch succeeded within the retry budget, the
\* controller then owning the spawned process.
C7_FallbackSucceedsOnceSpawned ==
    (FellBack /\ InConstruction) =>
        /\ ~reuse
        /\ (lastOutcome = "ok" /\ pc # "connect") =>
               (Constructed /\ process # 0)

\* C7: after the fallback, reuse is cleared and the spawn-with-retry
\* algorithm runs; the construction succeeds whenever a launch succeeded
\* within the retry budget and the authentication that follows succeeded,
\* and the controller then has reuse = false and owns the spawned process,
\* which a later stop() terminates.
C7_FallbackSpawns ==
    (FellBack /\ InConstruction) =>
        /\ ~reuse
        /\ (lastOutcome = "bind" /\ retry /\ conflicts <= DefaultRetries) =>
               pc = "start"
        /\ (lastOutcome = "ok" /\ connOutcome = "ok") =>
               /\ Constructed
               /\ cntrlr = "auth"
               /\ Len(procs) = 1 /\ process = 1
               /\ stopCalls = 0 => procs[process] = "live"
               /\ StopFn(reuse, process, procs).procs[process] = "dead"
               /\ stopCalls > 0 => procs[process] = "dead"

C7_Witness ==
    /\ FellBack /\ InConstruction
    /\ pc = "ready" /\ ~reuse
    /\ conflicts > 0
    /\ process = 1 /\ procs[process] = "dead" /\ kills = 1

\* C8: when reuse is requested and the connect fails with an authentication
\* failure, that failure leaves the constructor at once, whatever
\* exit_on_reuse_fail is: reuse is not cleared and no launch attempt is made.
C8_AuthFailurePropagates ==
    (reuseReq /\ reuseConn = "auth_rejected") =>
        /\ pc = "failed"
        /\ error = "AuthenticationFailure"
        /\ reuse
        /\ launches = 0
        /\ procs = <<>>

C8_Witness ==
    /\ reuseReq /\ reuseConn = "auth_rejected" /\ ~exitOnReuseFail
    /\ pc = "failed" /\ error = "AuthenticationFailure"

\* C9: a launch that fails with the broken-configuration signature makes
\* start() fail at once with FatalConfiguration, whatever retry and the
\* remaining budget are: no port is bumped, the budget is not decremented
\* and no further launch attempt is made.
C9_BrokenConfIsFatal ==
    [][LaunchStep("broken") =>
           /\ error' = "FatalConfiguration"
           /\ pc' # "start"
           /\ ports' = ports
           /\ retries' = retries
           /\ process' = process]_vars

C9_Witness ==
    /\ lastOutcome = "broken"
    /\ error = "FatalConfiguration"
    /\ retry
    /\ retries = 0
    /\ conflicts = budget

\* C10: a launch failure that is neither a bind conflict nor a
\* broken-configuration report leaves start() as LaunchError, whatever the
\* remaining budget and the retry depth are, and bumps no port.
C10_OtherFailurePropagates ==
    [][LaunchStep("other") =>
           /\ error' = "LaunchError"
           /\ pc' # "start"
           /\ ports' = ports
           /\ retries' = retries]_vars

\* A stop() step is being taken (explicit or by __exit__).
StopStep == stopCalls' = stopCalls + 1
\* An authentication has succeeded since the controller was created.
AuthSucceeded == reuseConn = "ok" \/ connOutcome = "ok"

\* C11: in every reachable state a controller with reuse = true owns no
\* process, and its stop() terminates no process.
C11_ReuseOwnsNothing ==
    /\ [](reuse => process = 0)
    /\ [][(StopStep /\ reuse) => (kills' = kills /\ procs' = procs)]_vars

C13_PortsBumpTogether ==
    /\ [](\E b \in 0..launches :
              /\ socks_port = initSocks + 2 * b
              /\ cntrl_port = initCntrl + 2 * b)
    /\ [][ports' # ports =>
              /\ LaunchStep("bind") /\ retry /\ retries > 0
              /\ socks_port' = socks_port + 2
              /\ cntrl_port' = cntrl_port + 2]_vars

C13_Witness ==
    /\ nPublic = 1
    /\ socks_port = initSocks + 2 * (DefaultRetries + 1)
    /\ cntrl_port = initCntrl + 2 * (DefaultRetries + 1)

\* The outcomes a start() call can end in.
StartEnded ==
    \/ lastOutcome' = "ok" /\ error' = "none"
    \/ lastOutcome' # "ok" /\
          error' \in {"FatalConfiguration", "RetriesExhausted", "LaunchError"}

\* C14: within one start() call chain the remaining budget never increases
\* and drops by exactly 1 per bind-conflict retry, so start(budget) makes at
\* most budget + 1 launch attempts, and it ends in success,
\* FatalConfiguration, RetriesExhausted or LaunchError.
C14_BudgetConsumed ==
    /\ [](/\ attempts <= budget + 1
          /\ retries \in 0..budget
          /\ pc = "start" => (attempts = conflicts /\ retries = budget - attempts))
    /\ [][nPublic' = nPublic =>
              /\ retries' <= retries
              /\ retries' # retries =>
                     (retries' = retries - 1 /\ LaunchStep("bind"))
              /\ (LaunchStep("bind") /\ pc' = "start") => retries' = retries - 1]_vars
    /\ [][(pc = "start" /\ pc' # "start") => StartEnded]_vars

C14_Witness ==
    /\ budget = DefaultRetries
    /\ attempts = DefaultRetries + 1
    /\ retries = 0
    /\ pc # "start"

\* C15: with retry disabled, a bind conflict in a construction bumps no port
\* and is not retried: one launch attempt was made, the ports are the
\* caller's, no process is owned and the construction has failed.
C15_NoRetryWhenDisabled ==
    (InConstruction /\ ~retry /\ lastOutcome = "bind") =>
        /\ pc = "failed"
        /\ error = "LaunchError"
        /\ attempts = 1
        /\ launches = 1
        /\ socks_port = initSocks
        /\ cntrl_port = initCntrl
        /\ process = 0
        /\ procs = <<>>

C15_Witness ==
    /\ InConstruction /\ ~retry /\ lastOutcome = "bind"
    /\ pc = "failed"
    /\ launches = 1

\* C16: in a construction without reuse, the i-th launch attempt
\* (i = 0, 1, ...) is configured with the caller's ports plus 2i, no daemon
\* of an earlier attempt exists when an attempt is made, and connect_cntrlr
\* is called only after a launch succeeded, on the ControlPort of that
\* launch's configuration.
C16_AttemptPortsAndConnect ==
    (InConstruction /\ ~reuseReq) =>
        /\ attempts >= 1 =>
               cfg = <<initSocks + 2 * (attempts - 1), initCntrl + 2 * (attempts - 1)>>
        /\ pc = "start" => procs = <<>>
        /\ Len(procs) <= 1
        /\ lastOutcome # "ok" => (connPort = 0 /\ connOutcome = "none" /\ cntrlr = "none")
        /\ connPort # 0 =>
               (lastOutcome = "ok" /\ connOutcome # "none" /\ connPort = cfg[2])

C16_Witness ==
    /\ InConstruction /\ ~reuseReq
    /\ attempts = 3
    /\ connOutcome = "ok"
    /\ connPort = initCntrl + 4

\* C18: when the constructor has returned, the controller holds an
\* authenticated session and either reuses (reuse = true, no process) or has
\* spawned (reuse = false, its one process is alive).
C18_ConstructedIsReusedOrSpawned ==
    (Constructed /\ InConstruction /\ stopCalls = 0) =>
        /\ error = "none"
        /\ cntrlr = "auth"
        /\ \/ reuse /\ process = 0 /\ procs = <<>>
           \/ ~reuse /\ process = 1 /\ procs = <<"live">>

C18_Witness ==
    /\ Constructed /\ InConstruction /\ stopCalls = 0
    /\ reuseReq /\ ~reuse
    /\ procs = <<"live">>

\* C19: every spawned process that was not killed is the one self.process
\* refers to, and a stop() leaves no spawned process alive.
C19_OnlyOwnedProcessLives ==
    /\ \A i \in 1..Len(procs) : procs[i] = "live" => process = i
    /\ prevStop => AllDead

\* C20: once the constructor has returned, socks_port does not change, so
\* the port of a client's connector is the controller's socks_port.
C20_SocksPortStable ==
    /\ [](clientPort # 0 => clientPort = socks_port)
    /\ [][(Constructed \/ ~InConstruction) => socks_port' = socks_port]_vars

\* The ports bound by the daemon of controller c.
DaemonPorts(c) ==
    IF ctl[c].daemon = <<>> THEN {} ELSE {ctl[c].daemon[1], ctl[c].daemon[2]}
\* No two controllers own live daemons that bind a common port.
NoSharedPort ==
    \A c, d \in Ctrls : c # d => DaemonPorts(c) \cap DaemonPorts(d) = {}
\* The construction of controller c has ended with c owning a daemon bound
\* to its own port pair.
OwnsOwnPair(c) ==
    /\ ctl[c].pc \in {"ready", "stopped"}
    /\ ctl[c].pc = "ready" =>
           ctl[c].daemon = <<ctl[c].socks_port, ctl[c].cntrl_port>>
    /\ ctl[c].socks_port = initSocks + 2 * ctl[c].conflicts
    /\ ctl[c].cntrl_port = initCntrl + 2 * ctl[c].conflicts
HostEnded(c) == ctl[c].pc \in {"ready", "stopped", "failed"}
\* Controller c met no launch failure other than bind conflicts and no
\* failure of its connect_cntrlr.
OnlyBindFailures(c) ==
    /\ ctl[c].lastOutcome \in {"ok", "bind"}
    /\ ctl[c].error \notin {"SocketError", "AuthenticationFailure"}

\* C17 as stated: no two controllers own daemons bound to a common port, and
\* every controller whose construction ended having met at most
\* DefaultRetries bind conflicts (and no other failure) owns a daemon on its
\* own port pair.
C17_CoexistAsStated ==
    /\ NoSharedPort
    /\ \A c \in Ctrls :
           (HostEnded(c) /\ ctl[c].conflicts <= DefaultRetries
                /\ OnlyBindFailures(c)) => OwnsOwnPair(c)

\* C17: no two controllers own daemons bound to a common port; a controller
\* with retry enabled keeps retrying while it has met at most DefaultRetries
\* bind conflicts, and every such controller whose launches failed with bind
\* conflicts only and whose authentication succeeded ends its construction
\* owning a daemon on its own port pair.
C17_Coexist ==
    /\ NoSharedPort
    /\ \A c \in Ctrls :
           /\ ctl[c].daemon # <<>> =>
                  ctl[c].daemon = <<ctl[c].socks_port, ctl[c].cntrl_port>>
           /\ (ctl[c].retry /\ ctl[c].lastOutcome = "bind"
                   /\ ctl[c].conflicts <= DefaultRetries) => ctl[c].pc = "start"
           /\ (HostEnded(c) /\ ctl[c].retry
                   /\ ctl[c].conflicts <= DefaultRetries
                   /\ OnlyBindFailures(c)) => OwnsOwnPair(c)

C17_Witness ==
    \E c, d \in Ctrls :
        /\ c # d
        /\ ctl[c].pc = "ready" /\ ctl[d].pc = "ready"
        /\ ctl[c].conflicts = 0 /\ ctl[d].conflicts = 1
        /\ ctl[d].daemon = <<initSocks + 2, initCntrl + 2>>
====
